---- MODULE Spec2Model ----
(***************************************************************************)
(* A model of rofi-bookmarks.py: the profile locator, the snapshot copier  *)
(* (temp_sqlite), the bookmark walk and filter of write_rofi_input, the    *)
(* favicon cache (cache_icon) and the listing branch of __main__.          *)
(*                                                                         *)
(* Conventions.  Python's None is the value None below.  A string that the *)
(* code inspects character by character (a profile name) is a sequence of  *)
(* one-character strings; a string the code only compares or prints        *)
(* (a title, a URL) is a TLA+ string.  An output line is the sequence of   *)
(* the pieces its f-string concatenates.  The interpreter is Python 3.7 or *)
(* later (PEP 479: a StopIteration leaving a generator expression becomes  *)
(* a RuntimeError).  I/O is assumed to fail only where an action below     *)
(* says so; the parent of cache_dir exists and is writable.                *)
(***************************************************************************)
EXTENDS Integers, Sequences, FiniteSets, TLC

VARIABLES
    listing,            \* firefox_dir.glob('*'): the entries, in enumeration order
    ini,                \* firefox_dir / 'profiles.ini'
    args,               \* the parsed command line
    db,                 \* the database the open temp_sqlite block is for
    table,              \* the rows of moz_bookmarks LEFT JOIN moz_places
    pc,                 \* position of the listing run
    stdout,             \* the lines printed so far
    exit_code,          \* <<>> while running, then <<code>>
    exc,                \* the exception in flight, or NoExc
    raised,             \* history: the position the run raised at, or ""
    profile_path,       \* result of the profile lookup
    conn_res,           \* rows fetched from the places snapshot
    k,                  \* index of the row the loop is at
    tmp,                \* temporary copies that exist
    conn,               \* snapshot connections that are open
    favicon_available,  \* favicons_db.exists() at line 115
    icon,               \* the icon found for the row in hand
    display_name,       \* display_name of the row in hand
    path,               \* path of the row in hand (sep.join of the remainder)
    accepted,           \* history: ids of the rows that passed the filter
    emitted,            \* history: ids of the rows a line was printed for, in order
    cache,              \* the file system at cache_dir
    proc,               \* the processes calling cache_icon
    rets,               \* history: the calls of cache_icon that returned
    by_id,              \* the parent index a walk runs on
    walk                \* the walk in hand and its result

vars == <<listing, ini, args, db, table, pc, stdout, exit_code, exc,
          raised, profile_path, conn_res, k, tmp, conn, favicon_available,
          icon, display_name, path, accepted, emitted, cache, proc, rets,
          by_id, walk>>

None == "<None>"

(***************************************************************************)
(* Results of a call: a value returned or an exception raised.             *)
(***************************************************************************)
Return(v) == [ok |-> TRUE, val |-> v]

\* An exception: its type and str(e), the pieces of the message.
Exception(type, msg) == [type |-> type, msg |-> msg]

NoExc == Exception("none", <<>>)

Raise(type, msg) == [ok |-> FALSE, val |-> Exception(type, msg)]

\* Index of the first element of s satisfying Test, 0 if there is none.
SelectFirst(s, Test(_)) ==
    IF \E i \in 1..Len(s) : Test(s[i])
    THEN CHOOSE i \in 1..Len(s) : Test(s[i]) /\ \A j \in 1..(i - 1) : ~Test(s[j])
    ELSE 0

(***************************************************************************)
(* Strings as sequences of characters: str.lower, `in`, startswith.        *)
(***************************************************************************)
LowerChar(c) ==
    CASE c = "A" -> "a"
      [] c = "B" -> "b"
      [] c = "D" -> "d"
      [] OTHER -> c

Lower(s) == [i \in 1..Len(s) |-> LowerChar(s[i])]

\* Python's `sub in s` on strings.
Contains(s, sub) ==
    \E i \in 0..(Len(s) - Len(sub)) :
        \A j \in 1..Len(sub) : s[i + j] = sub[j]

StartsWith(s, c) == Len(s) > 0 /\ s[1] = c

(***************************************************************************)
(* Profile locator.  A directory entry of firefox_dir is a record          *)
(*   [name, is_dir, places, prefs, favicons, mtime]                        *)
(* places/prefs/favicons: whether places.sqlite, prefs.js, favicons.sqlite *)
(* exist in it.  A path under firefox_dir is the relative part.            *)
(***************************************************************************)
firefox_dir(rel) == <<"firefox_dir", rel>>

IsProfileDir(e) ==
    /\ e.is_dir
    /\ ~StartsWith(e.name, ".")
    /\ (e.places \/ e.prefs)

find_profile_directories(ls) == SelectSeq(ls, IsProfileDir)

\* max(profile_dirs, key=mtime): the first entry of greatest mtime.
MaxByMtime(dirs) ==
    LET best == CHOOSE i \in 1..Len(dirs) :
                    /\ \A j \in 1..Len(dirs) : dirs[j].mtime <= dirs[i].mtime
                    /\ \A j \in 1..(i - 1) : dirs[j].mtime < dirs[i].mtime
    IN  dirs[best]

default_profile_path(ls) ==
    LET profile_dirs == find_profile_directories(ls)
        IsDefault(e) == Contains(Lower(e.name), <<"d", "e", "f", "a", "u", "l", "t">>)
        d == SelectFirst(profile_dirs, IsDefault)
    IN  IF Len(profile_dirs) = 0
        THEN Raise("Exception", <<"No Firefox profiles found in directory structure">>)
        ELSE IF d # 0 THEN Return(firefox_dir(profile_dirs[d].name))
        ELSE Return(firefox_dir(MaxByMtime(profile_dirs).name))

(***************************************************************************)
(* profiles.ini: [readable, sections].  readable is FALSE when             *)
(* ConfigParser.read raises (a line before the first section header, a    *)
(* section given twice); a missing file reads as no section.  A section    *)
(* gives Name and Path, each                                               *)
(*   [kind |-> "absent"]    the key is missing: section[key] raises        *)
(*                          KeyError                                       *)
(*   [kind |-> "bad"]       the value holds a lone '%': section[key]       *)
(*                          raises InterpolationSyntaxError                *)
(*   [kind |-> "str", s]    the value s                                    *)
(***************************************************************************)
Absent == [kind |-> "absent"]

Bad == [kind |-> "bad"]

Str(s) == [kind |-> "str", s |-> s]

RECURSIVE IniLookup(_, _, _)
\* The loop of lines 76-79 from section i on.  "found": line 79 returned;
\* "none": the loop ended; "except": an exception other than KeyError left
\* the loop and line 80 swallowed it.
IniLookup(sections, i, name) ==
    IF i > Len(sections) THEN [how |-> "none"]
    ELSE LET section == sections[i] IN
         IF section.Name.kind = "absent" THEN IniLookup(sections, i + 1, name)
         ELSE IF section.Name.kind = "bad" THEN [how |-> "except"]
         ELSE IF section.Name.s # name THEN IniLookup(sections, i + 1, name)
         ELSE IF section.Path.kind = "absent" THEN IniLookup(sections, i + 1, name)
         ELSE IF section.Path.kind = "bad" THEN [how |-> "except"]
         ELSE [how |-> "found", rel |-> section.Path.s]

IniFallback(cfg, name) ==
    IF ~cfg.readable THEN [how |-> "except"]
    ELSE IniLookup(cfg.sections, 1, name)

NotFoundMsg(name) == <<"No profile with name '">> \o name \o <<"' found">>

path_from_name(ls, cfg, name) ==
    LET profile_dirs == find_profile_directories(ls)
        Exact(e) == e.name = name
        Partial(e) == Contains(Lower(e.name), Lower(name))
        x == SelectFirst(profile_dirs, Exact)
        p == SelectFirst(profile_dirs, Partial)
        f == IniFallback(cfg, name)
    IN  IF x # 0 THEN Return(firefox_dir(profile_dirs[x].name))
        ELSE IF p # 0 THEN Return(firefox_dir(profile_dirs[p].name))
        ELSE IF f.how = "found" THEN Return(firefox_dir(f.rel))
        ELSE Raise("Exception", NotFoundMsg(name))

(***************************************************************************)
(* Bookmark rows and the parent walk.  A row of conn_res is                *)
(*   [id, parent, type, title, url]                                        *)
(* with title and url None where the database holds NULL.                  *)
(***************************************************************************)
Row(id, parent, type, title, url) ==
    [id |-> id, parent |-> parent, type |-> type, title |-> title, url |-> url]

\* type one means bookmark
Bookmark == 1

\* the id the walk stops at: `while i > 1`
RootId == 1

\* by_id = {i: (title, parent) for i, parent, _, title, _ in conn_res}
ById(rows) ==
    [i \in {rows[n].id : n \in 1..Len(rows)} |->
        LET n == CHOOSE n \in 1..Len(rows) :
                     /\ rows[n].id = i
                     /\ \A m \in (n + 1)..Len(rows) : rows[m].id # i
        IN  <<rows[n].title, rows[n].parent>>]

RECURSIVE WalkFrom(_, _, _, _)
\* The loop of parent_generator at id i, with the titles yielded so far.
\* fuel is the number of lookups still allowed: a walk that made as many
\* lookups as the index has rows and still continues has met a row twice
\* and never ends ("running").
WalkFrom(idx, i, yielded, fuel) ==
    IF ~(i > RootId) THEN [status |-> "done", titles |-> yielded, i |-> i]
    ELSE IF i \notin DOMAIN idx THEN [status |-> "KeyError", titles |-> yielded, i |-> i]
    ELSE IF fuel = 0 THEN [status |-> "running", titles |-> yielded, i |-> i]
    ELSE WalkFrom(idx, idx[i][2], Append(yielded, idx[i][1]), fuel - 1)

\* list(parent_generator(i))
parent_generator(idx, i) == WalkFrom(idx, i, <<>>, Cardinality(DOMAIN idx))

\* Reversed left out: the titles in the order the walk yields them.
NotReversed(s) == s

Reversed(s) == [n \in 1..Len(s) |-> s[Len(s) + 1 - n]]

(***************************************************************************)
(* all(name == next(path_arr) for name in search_path), line 128.          *)
(* "RuntimeError": next() found path_arr used up (every segment before     *)
(* matched); otherwise the value of all(), and what is left of path_arr    *)
(* when it is True.                                                        *)
(***************************************************************************)
MatchSearchPath(path_arr, search_path) ==
    LET Stops(j) == j > Len(path_arr) \/ search_path[j] # path_arr[j]
        j == SelectFirst([n \in 1..Len(search_path) |-> n], Stops)
    IN  IF j = 0
        THEN [how |-> "True",
              rest |-> SubSeq(path_arr, Len(search_path) + 1, Len(path_arr))]
        ELSE IF j > Len(path_arr) THEN [how |-> "RuntimeError", rest |-> <<>>]
        ELSE [how |-> "False", rest |-> <<>>]

RECURSIVE JoinFrom(_, _, _)
JoinFrom(sep, s, n) ==
    IF n > Len(s) THEN ""
    ELSE IF n = Len(s) THEN s[n]
    ELSE s[n] \o sep \o JoinFrom(sep, s, n + 1)

\* sep.join(s): TypeError at the first item that is None.
Join(sep, s) ==
    LET IsNone(x) == x = None
        bad == SelectFirst(s, IsNone)
    IN  IF bad # 0
        THEN Raise("TypeError", <<"sequence item ", ToString(bad - 1),
                                  ": expected str instance, NoneType found">>)
        ELSE Return(JoinFrom(sep, s, 1))

\* [i for i in args.path.split('/') if i != ''], on the pieces split gives
SearchPath(pieces) == SelectSeq(pieces, LAMBDA i : i # "")

\* title if title else "Untitled Bookmark"
DisplayName(title) ==
    IF title = None \/ title = "" THEN "Untitled Bookmark" ELSE title

(***************************************************************************)
(* Output lines: the pieces of each f-string, in order.                    *)
(***************************************************************************)
NUL == "\\x00"

US == "\\x1f"

\* str() of a value an f-string formats
Format(v) == IF v = None THEN "None" ELSE v

PromptLine == <<NUL, "prompt">>

InfoLine(name, url) == <<name, NUL, "info", US, Format(url)>>

IconLine(name, url, loc) ==
    <<name, NUL, "info", US, Format(url), US, "icon", US, loc>>

ErrorLine(e) == <<"Error: ">> \o e.msg

(***************************************************************************)
(* Favicon cache.  cache = [dir, files]: whether cache_dir exists, and the *)
(* content of each file in it, by path.  Icon bytes are sequences of byte  *)
(* values; an icon read from the store is IconNone (NULL) or Blob(bytes).  *)
(***************************************************************************)
IconNone == [kind |-> "None", data |-> <<>>]

Blob(b) == [kind |-> "bytes", data |-> b]

\* `if icon:`
Truthy(ic) == ic.kind = "bytes" /\ Len(ic.data) > 0

\* sha256(icon).hexdigest(), on the icons of the model
sha256hex(b) ==
    CASE b = <<1>> -> "4bf5122f344554c53bde2ebb8cd2b7e3d1600ad631c385a5d7cce23c7785459a"
      [] b = <<2>> -> "dbc1b4c900ffe48d575b5da5c638040125f65db0fe3e24494b76ea986457d986"
      [] b = <<1, 2>> -> "a12871fee210fb8619291eaea194581cbd2531e4b23759d225f6806923f63222"
      [] b = <<>> -> "e3b0c44298fc1c149afbf4c8996fb92427ae41e4649b934ca495991b7852b855"

\* loc = cache_dir / sha256(icon).hexdigest()
Loc(b) == "cache_dir/" \o sha256hex(b)

\* cache_dir.mkdir()
Mkdir(c) ==
    IF c.dir THEN Raise("FileExistsError", <<"[Errno 17] File exists: 'cache_dir'">>)
    ELSE Return([c EXCEPT !.dir = TRUE])

\* loc.exists()
LocExists(c, loc) == loc \in DOMAIN c.files

\* write_bytes opens loc for writing, which creates it empty or empties it,
OpenTruncate(c, loc) == [c EXCEPT !.files = (loc :> <<>>) @@ c.files]

\* and then writes the bytes.
WriteData(c, loc, b) == [c EXCEPT !.files = (loc :> b) @@ c.files]

\* Line 88: if not cache_dir.exists()
NeedsMkdir(c) == ~c.dir

\* Line 90 without its test: the file is written on every call.
AlwaysWrite(c, loc) == TRUE

\* Line 90: if not loc.exists()
NeedsWrite(c, loc) == ~LocExists(c, loc)

\* cache_icon run by one process with no other process at work
cache_icon(c, b) ==
    LET loc == Loc(b)
        c1 == IF NeedsMkdir(c) THEN Mkdir(c).val ELSE c
        c2 == IF NeedsWrite(c1, loc) THEN WriteData(OpenTruncate(c1, loc), loc, b)
              ELSE c1
    IN  [loc |-> loc, cache |-> c2]

(***************************************************************************)
(* The listing run: __main__ lines 168-176 and write_rofi_input.           *)
(***************************************************************************)
env == <<listing, ini, args, table>>

others == <<proc, rets, by_id, walk>>

search_path == SearchPath(args.path)

\* (profile_loc / file).exists(), for a file kept in the entry's record
PlacesExists(ls, loc) ==
    \E n \in 1..Len(ls) :
        ls[n].is_dir /\ firefox_dir(ls[n].name) = loc /\ ls[n].places

FaviconsExists(ls, loc) ==
    \E n \in 1..Len(ls) :
        ls[n].is_dir /\ firefox_dir(ls[n].name) = loc /\ ls[n].favicons

\* Lines 169-170: the search path and the profile.
Resolve ==
    /\ pc = "main"
    /\ LET r == IF args.profile.given
                THEN path_from_name(listing, ini, args.profile.name)
                ELSE default_profile_path(listing)
       IN  IF r.ok
           THEN /\ profile_path' = r.val
                /\ pc' = "prompt"
                /\ UNCHANGED <<exc, raised>>
           ELSE /\ exc' = r.val
                /\ raised' = "profile"
                /\ pc' = "except"
                /\ UNCHANGED profile_path
    /\ UNCHANGED <<env, others, stdout, exit_code, conn_res, k, tmp, conn, db,
                   favicon_available, icon, display_name, path, accepted,
                   emitted, cache>>

\* Line 172: print("\x00prompt")
PrintPrompt ==
    /\ pc = "prompt"
    /\ stdout' = Append(stdout, PromptLine)
    /\ pc' = "places"
    /\ UNCHANGED <<env, others, exit_code, exc, raised, profile_path, conn_res,
                   k, tmp, conn, db, favicon_available, icon, display_name,
                   path, accepted, emitted, cache>>

\* Lines 96-103: places.sqlite must exist; then temp_sqlite(places_db).
CheckPlaces ==
    /\ pc = "places"
    /\ IF PlacesExists(listing, profile_path)
       THEN /\ db' = "places"
            /\ pc' = "tempfile"
            /\ UNCHANGED <<exc, raised>>
       ELSE /\ exc' = Exception("Exception", <<"places.sqlite not found in profile: ">>
                                              \o profile_path[2])
            /\ raised' = "places"
            /\ pc' = "except"
            /\ UNCHANGED db
    /\ UNCHANGED <<env, others, stdout, exit_code, profile_path, conn_res, k,
                   tmp, conn, favicon_available, icon, display_name, path,
                   accepted, emitted, cache>>

(***************************************************************************)
(* temp_sqlite(path), lines 19-24, for the database db.  An exception in   *)
(* the block leaves through closing (the connection is closed) and then    *)
(* through NamedTemporaryFile (the copy is deleted).                       *)
(***************************************************************************)
\* Where an exception raised outside every temp_sqlite block goes.
Propagate == "except"

\* Line 21: NamedTemporaryFile()
TempFile ==
    /\ pc = "tempfile"
    /\ \/ /\ tmp' = tmp \cup {db}
          /\ pc' = "copy"
          /\ UNCHANGED <<exc, raised>>
       \/ /\ exc' = Exception("OSError", <<"temporary file: ", db>>)
          /\ raised' = "tempfile"
          /\ pc' = Propagate
          /\ UNCHANGED tmp
    /\ UNCHANGED <<env, others, stdout, exit_code, profile_path, conn_res, k,
                   conn, db, favicon_available, icon, display_name, path,
                   accepted, emitted, cache>>

\* Line 22: copyfile(path, temp_loc.name)
Copy ==
    /\ pc = "copy"
    /\ \/ /\ pc' = "connect"
          /\ UNCHANGED <<exc, raised>>
       \/ /\ exc' = Exception("OSError", <<"copyfile: ", db>>)
          /\ raised' = "copy"
          /\ pc' = "unlink"
    /\ UNCHANGED <<env, others, stdout, exit_code, profile_path, conn_res, k,
                   tmp, conn, db, favicon_available, icon, display_name, path,
                   accepted, emitted, cache>>

\* Line 23: sqlite3.connect(temp_loc.name); line 24 yields the connection.
Connect ==
    /\ pc = "connect"
    /\ \/ /\ conn' = conn \cup {db}
          /\ pc' = IF db = "places" THEN "query" ELSE "loop"
          /\ UNCHANGED <<exc, raised>>
       \/ /\ exc' = Exception("sqlite3.Error", <<"connect: ", db>>)
          /\ raised' = "connect"
          /\ pc' = "unlink"
          /\ UNCHANGED conn
    /\ UNCHANGED <<env, others, stdout, exit_code, profile_path, conn_res, k,
                   tmp, db, favicon_available, icon, display_name, path,
                   accepted, emitted, cache>>

\* closing.__exit__: conn.close()
Close ==
    /\ pc = "close"
    /\ conn' = conn \ {db}
    /\ pc' = "unlink"
    /\ UNCHANGED <<env, others, stdout, exit_code, exc, raised, profile_path,
                   conn_res, k, tmp, db, favicon_available, icon, display_name,
                   path, accepted, emitted, cache>>

\* NamedTemporaryFile.__exit__: the copy is closed and deleted; then the
\* exception in flight goes on, or the code after the block runs.
Unlink ==
    /\ pc = "unlink"
    /\ tmp' = tmp \ {db}
    /\ db' = "none"
    /\ pc' = IF exc # NoExc THEN Propagate
             ELSE IF db = "places" THEN "index"
             ELSE "return"
    /\ UNCHANGED <<env, others, stdout, exit_code, exc, raised, profile_path,
                   conn_res, k, conn, favicon_available, icon, display_name,
                   path, accepted, emitted, cache>>

\* Lines 104-106: the query on the places snapshot.
Query ==
    /\ pc = "query"
    /\ \/ /\ conn_res' = table
          /\ UNCHANGED <<exc, raised>>
       \/ /\ exc' = Exception("sqlite3.Error", <<"query: places">>)
          /\ raised' = "query"
          /\ UNCHANGED conn_res
    /\ pc' = "close"
    /\ UNCHANGED <<env, others, stdout, exit_code, profile_path, k, tmp, conn,
                   db, favicon_available, icon, display_name, path, accepted,
                   emitted, cache>>

\* Lines 108-122: by_id, favicon_available and the favicon context.
Index ==
    /\ pc = "index"
    /\ favicon_available' = FaviconsExists(listing, profile_path)
    /\ k' = 1
    /\ IF favicon_available'
       THEN db' = "favicons" /\ pc' = "tempfile"
       ELSE db' = "none" /\ pc' = "loop"
    /\ UNCHANGED <<env, others, stdout, exit_code, exc, raised, profile_path,
                   conn_res, tmp, conn, icon, display_name, path, accepted,
                   emitted, cache>>

(***************************************************************************)
(* The loop of lines 123-144 over conn_res, one row at a time.             *)
(***************************************************************************)
\* LoopRaise without the context manager: the exception goes straight on.
LoopRaiseLeaks(where, e) ==
    /\ exc' = e
    /\ raised' = where
    /\ pc' = "except"

\* An exception raised in the loop leaves the favicon context: the
\* temp_sqlite block when favicons.sqlite exists, else suppress(), which
\* holds nothing and lets it pass.
LoopRaise(where, e) ==
    /\ exc' = e
    /\ raised' = where
    /\ pc' = IF db = "favicons" THEN "close" ELSE Propagate

\* Lines 124-130: the walk, the filter, the join and the display name.
RowFilter ==
    /\ pc = "loop"
    /\ k <= Len(conn_res)
    /\ LET row == conn_res[k]
           w == parent_generator(ById(conn_res), row.id)
           m == MatchSearchPath(Reversed(w.titles), search_path)
           j == Join(args.separator, m.rest)
       IN  /\ row.type = Bookmark => w.status # "running"
           /\ IF row.type # Bookmark \/ (w.status = "done" /\ m.how = "False")
              THEN /\ k' = k + 1
                   /\ UNCHANGED <<pc, exc, raised, accepted, path, display_name>>
              ELSE IF w.status = "KeyError"
              THEN /\ LoopRaise("walk", Exception("KeyError", <<ToString(w.i)>>))
                   /\ UNCHANGED <<k, accepted, path, display_name>>
              ELSE IF m.how = "RuntimeError"
              THEN /\ LoopRaise("filter", Exception("RuntimeError",
                                                    <<"generator raised StopIteration">>))
                   /\ UNCHANGED <<k, accepted, path, display_name>>
              ELSE /\ accepted' = accepted \cup {row.id}
                   /\ IF j.ok
                      THEN /\ path' = j.val
                           /\ display_name' = DisplayName(row.title)
                           /\ pc' = "icon"
                           /\ UNCHANGED <<k, exc, raised>>
                      ELSE /\ LoopRaise("join", j.val)
                           /\ UNCHANGED <<k, path, display_name>>
    /\ UNCHANGED <<env, others, stdout, exit_code, profile_path, conn_res, tmp,
                   conn, db, favicon_available, icon, emitted, cache>>

Icons == {<<1>>, <<2>>}

\* What the query of lines 135-137 can give: an exception, NULL, or a blob.
QueryOutcomes ==
    {[kind |-> "raise", data |-> <<>>], IconNone, Blob(<<>>)}
        \cup {Blob(b) : b \in Icons}

\* Lines 132-139: the favicon of the row's URL.
RowIcon ==
    /\ pc = "icon"
    /\ IF favicon_available /\ "favicons" \in conn
       THEN \E o \in QueryOutcomes :
                icon' = IF o.kind = "raise" THEN IconNone ELSE o
       ELSE icon' = IconNone
    /\ pc' = "print"
    /\ UNCHANGED <<env, others, stdout, exit_code, exc, raised, profile_path,
                   conn_res, k, tmp, conn, db, favicon_available, display_name,
                   path, accepted, emitted, cache>>

\* Lines 141-144: the line of the row, with the icon cached when there is
\* one; mkdir or write_bytes may fail (OSError), and then nothing is printed.
\* icon, path and display_name are not read again before the next row sets
\* them.
RowPrint ==
    /\ pc = "print"
    /\ LET row == conn_res[k]
           r == cache_icon(cache, icon.data)
       IN  \/ /\ IF Truthy(icon)
                 THEN /\ stdout' = Append(stdout, IconLine(display_name, row.url, r.loc))
                      /\ cache' = r.cache
                 ELSE /\ stdout' = Append(stdout, InfoLine(display_name, row.url))
                      /\ UNCHANGED cache
              /\ emitted' = Append(emitted, row.id)
              /\ icon' = IconNone
              /\ path' = ""
              /\ display_name' = ""
              /\ k' = k + 1
              /\ pc' = "loop"
              /\ UNCHANGED <<exc, raised>>
           \/ /\ Truthy(icon)
              /\ LoopRaise("cache", Exception("OSError", <<"cache_icon: ", r.loc>>))
              /\ UNCHANGED <<stdout, cache, emitted, icon, path, display_name, k>>
    /\ UNCHANGED <<env, others, exit_code, profile_path, conn_res, tmp, conn, db,
                   favicon_available, accepted>>

\* The loop is over: the favicon context is left.
LoopEnd ==
    /\ pc = "loop"
    /\ k > Len(conn_res)
    /\ pc' = IF db = "favicons" THEN "close" ELSE "return"
    /\ UNCHANGED <<env, others, stdout, exit_code, exc, raised, profile_path,
                   conn_res, k, tmp, conn, db, favicon_available, icon,
                   display_name, path, accepted, emitted, cache>>

\* write_rofi_input returned and the script ends: exit code 0.
Finish ==
    /\ pc = "return"
    /\ exit_code' = <<0>>
    /\ pc' = "exited"
    /\ UNCHANGED <<env, others, stdout, exc, raised, profile_path, conn_res, k,
                   tmp, conn, db, favicon_available, icon, display_name, path,
                   accepted, emitted, cache>>

\* Except without exit(1): the script ends after the print, with code 0.
ExceptFallsThrough ==
    /\ pc = "except"
    /\ stdout' = Append(stdout, <<"Error: ">> \o exc.msg)
    /\ exit_code' = <<0>>
    /\ pc' = "exited"
    /\ UNCHANGED <<listing, ini, args, table, proc, rets, by_id, walk, exc, raised,
                   profile_path, conn_res, k, tmp, conn, db, favicon_available,
                   icon, display_name, path, accepted, emitted, cache>>

\* Lines 174-176: print(f"Error: {e}"); exit(1)
Except ==
    /\ pc = "except"
    /\ stdout' = Append(stdout, ErrorLine(exc))
    /\ exit_code' = <<1>>
    /\ pc' = "exited"
    /\ UNCHANGED <<env, others, exc, raised, profile_path, conn_res, k, tmp,
                   conn, db, favicon_available, icon, display_name, path,
                   accepted, emitted, cache>>

(***************************************************************************)
(* The runs checked: the arguments, the profiles and the bookmark rows.    *)
(***************************************************************************)
MaxPieces == 2

Pieces == {"", "Work", "Site"}

\* args.path, as the pieces between its slashes
Paths == UNION {[1..n -> Pieces] : n \in 1..MaxPieces}

Separators == {" / ", ">"}

Entry(name, is_dir, places, prefs, favicons, mtime) ==
    [name |-> name, is_dir |-> is_dir, places |-> places, prefs |-> prefs,
     favicons |-> favicons, mtime |-> mtime]

NameDefault == <<"x", ".", "D", "e", "f", "a", "u", "l", "t">>

NameWork == <<"w", "o", "r", "k">>

NameOld == <<"o", "l", "d">>

Listings ==
    { <<>>,
      <<Entry(NameDefault, TRUE, TRUE, TRUE, TRUE, 1)>>,
      <<Entry(NameWork, TRUE, FALSE, TRUE, FALSE, 1),
        Entry(NameOld, TRUE, TRUE, FALSE, FALSE, 2)>> }

NoIni == [readable |-> TRUE, sections |-> <<>>]

Profiles == {[given |-> FALSE, name |-> <<>>], [given |-> TRUE, name |-> NameWork]}

\* The root, a folder Work under it, a row of any shape, and a bookmark
\* Site in Work or under that row, before it or after it.
Tables ==
    LET X(p, t, title) ==
            Row(3, p, t, title, IF t = Bookmark THEN "https://a" ELSE None)
        B(q) == Row(4, q, Bookmark, "Site", "https://b")
        Top == <<Row(1, 0, 2, "", None), Row(2, 1, 2, "Work", None)>>
    IN  { Top \o (IF first THEN <<B(q), X(p, t, title)>>
                   ELSE <<X(p, t, title), B(q)>>) :
          p \in {1, 2, 9}, t \in {Bookmark, 2},
          title \in {None, "", "Work", "Site"}, q \in {2, 3},
          first \in BOOLEAN }

EmptyCache == [dir |-> FALSE, files |-> <<>>]

OthersIdle ==
    /\ proc = <<>>
    /\ rets = <<>>
    /\ by_id = <<>>
    /\ walk = [status |-> "off", index |-> 0, i |-> 0, path_arr |-> <<>>]

\* The listing run before its first step.
RunStart ==
    /\ stdout = <<>>
    /\ exit_code = <<>>
    /\ exc = NoExc
    /\ raised = ""
    /\ profile_path = firefox_dir(<<>>)
    /\ conn_res = <<>>
    /\ k = 0
    /\ tmp = {}
    /\ conn = {}
    /\ db = "none"
    /\ favicon_available = FALSE
    /\ icon = IconNone
    /\ display_name = ""
    /\ path = ""
    /\ accepted = {}
    /\ emitted = <<>>

Init ==
    /\ listing \in Listings
    /\ ini = NoIni
    /\ args \in [path : Paths, separator : Separators, profile : Profiles]
    /\ table \in Tables
    /\ pc = "main"
    /\ RunStart
    /\ cache \in {EmptyCache, [EmptyCache EXCEPT !.dir = TRUE]}
    /\ OthersIdle

Next ==
    \/ Resolve
    \/ PrintPrompt
    \/ CheckPlaces
    \/ TempFile
    \/ Copy
    \/ Connect
    \/ Query
    \/ Close
    \/ Unlink
    \/ Index
    \/ RowFilter
    \/ RowIcon
    \/ RowPrint
    \/ LoopEnd
    \/ Finish
    \/ Except

Spec == Init /\ [][Next]_vars

(***************************************************************************)
(* Properties of the listing run.                                          *)
(***************************************************************************)
IsPrefix(p, s) == Len(p) <= Len(s) /\ \A j \in 1..Len(p) : s[j] = p[j]

\* The row with the given id, and the rows the loop is done with.
RowOf(id) == conn_res[CHOOSE n \in 1..Len(conn_res) : conn_res[n].id = id]

Handled == {n \in 1..Len(conn_res) : n < k}

Emitted(id) == \E n \in 1..Len(emitted) : emitted[n] = id

\* The folder titles from the root down to the immediate parent of row n.
AncestorPath(n) ==
    Reversed(parent_generator(ById(conn_res), conn_res[n].parent).titles)

\* The bookmark row the loop is about to filter, with a walk that ends.
AtBookmark ==
    /\ pc = "loop"
    /\ k <= Len(conn_res)
    /\ conn_res[k].type = Bookmark
    /\ parent_generator(ById(conn_res), conn_res[k].id).status = "done"

InFlight(id) == pc \in {"icon", "print"} /\ conn_res[k].id = id

\* C1: a bookmark row is emitted iff the first len(search_path) titles of its
\* ancestor path (root to immediate parent, its own title left out) equal
\* search_path.
C1_EmittedIffAncestorPrefix ==
    \A n \in Handled :
        conn_res[n].type = Bookmark =>
            (Emitted(conn_res[n].id) <=> IsPrefix(search_path, AncestorPath(n)))

\* C2: a bookmark whose reconstructed path is shorter than search_path is
\* skipped silently: nothing is raised or printed and the loop goes on to the
\* next row.
C2_ShortPathSkippedSilently ==
    [][(/\ AtBookmark
        /\ Len(parent_generator(ById(conn_res), conn_res[k].id).titles)
               < Len(search_path))
       => (pc' = "loop" /\ k' = k + 1 /\ stdout' = stdout /\ exc' = NoExc)]_vars

\* The line of the n-th emitted row has the wire format, with the title or
\* the placeholder as display name and without the joined path.
WireFormat(n) ==
    LET row == RowOf(emitted[n])
        line == stdout[n + 1]
        name == IF row.title = None \/ row.title = "" THEN "Untitled Bookmark"
                ELSE row.title
    IN  /\ Len(line) \in {5, 9}
        /\ SubSeq(line, 1, 5) = <<name, NUL, "info", US, Format(row.url)>>
        /\ Len(line) = 9 => SubSeq(line, 6, 8) = <<US, "icon", US>>

\* C3: every accepted bookmark produces exactly one line
\* <displayName> NUL info US <url> [US icon US <path>], displayName being the
\* title, or 'Untitled Bookmark' for an empty or NULL title.
C3_AcceptedRowGetsOneLine ==
    /\ \A id \in accepted : Emitted(id) \/ InFlight(id)
    /\ \A n \in 1..Len(emitted) :
          /\ WireFormat(n)
          /\ \A m \in 1..Len(emitted) : emitted[m] = emitted[n] => m = n

\* C6: with favicons.sqlite missing, or the favicon query raising or giving
\* no icon, every accepted bookmark is emitted as a line without the icon
\* field and the run goes on with the next row.
C6_NoFaviconNeverAborts ==
    /\ [](~favicon_available =>
            \A id \in accepted :
                \/ InFlight(id)
                \/ \E n \in 1..Len(emitted) :
                       emitted[n] = id /\ Len(stdout[n + 1]) = 5)
    /\ [][(pc = "print" /\ ~Truthy(icon))
          => (/\ stdout' = Append(stdout, InfoLine(display_name, conn_res[k].url))
              /\ pc' = "loop"
              /\ k' = k + 1
              /\ exc' = NoExc)]_vars

IsErrorLine(line) == line[1] = "Error: " /\ (Len(line) < 2 \/ line[2] # NUL)

\* C7 as claimed: a failed run writes the single line 'Error: <message>' and
\* nothing before it, and exits with 1; a run without failure exits with 0.
C7_OnlyTheErrorLine ==
    pc = "exited" =>
        IF raised # ""
        THEN stdout = <<ErrorLine(exc)>> /\ exit_code = <<1>>
        ELSE exit_code = <<0>>

\* C7 as amended: a failed run ends its output with the one line
\* 'Error: <message>' and exits with 1; a failure of the profile lookup
\* writes nothing before that line, a failure in write_rofi_input writes the
\* prompt line and the lines of the bookmarks emitted before it; a run
\* without failure writes no error line and exits with 0.
C7_ErrorLineLast ==
    pc = "exited" =>
        LET n == Len(stdout)
            body == IF raised # "" THEN SubSeq(stdout, 1, n - 1) ELSE stdout
        IN  /\ exit_code = IF raised # "" THEN <<1>> ELSE <<0>>
            /\ raised # "" => n >= 1 /\ stdout[n] = ErrorLine(exc)
            /\ \A m \in 1..Len(body) : ~IsErrorLine(body[m])
            /\ IF raised = "profile" THEN body = <<>>
               ELSE /\ Len(body) = 1 + Len(emitted)
                    /\ body[1] = PromptLine
                    /\ \A m \in 1..Len(emitted) : WireFormat(m)

C7_Witness ==
    /\ pc = "exited"
    /\ raised \in {"walk", "filter", "join"}
    /\ Len(stdout) >= 3

\* C10: a snapshot is released on every way out of its block: the connection
\* is closed before the copy is deleted, nothing is open or left once
\* write_rofi_input has returned or raised, and the places snapshot is
\* released before the favicons snapshot is opened.
C10_SnapshotsReleased ==
    /\ conn \subseteq tmp
    /\ pc \in {"index", "return", "except", "exited"} => conn = {} /\ tmp = {}
    /\ "favicons" \in tmp => "places" \notin tmp
    /\ conn \subseteq {db} /\ tmp \subseteq {db}

C10_Witness ==
    /\ pc = "exited"
    /\ raised = "join"
    /\ favicon_available
    /\ Len(emitted) >= 1

(***************************************************************************)
(* The profile lookup alone: line 170 on every small firefox_dir.          *)
(***************************************************************************)
MaxDirs == 2

MaxSections == 2

DirNames == {<<"a">>, <<"a", "b">>, <<"A", "B">>, <<".", "a">>}

Queries == {<<"a">>, <<"b">>, <<"a", "b">>}

\* A profile with places.sqlite, a profile with prefs.js only, a directory
\* that is no profile, a plain file.
DirEntries ==
    {Entry(name, kind[1], kind[2], kind[3], FALSE, 1) :
        name \in DirNames,
        kind \in {<<TRUE, TRUE, FALSE>>, <<TRUE, FALSE, TRUE>>,
                  <<TRUE, FALSE, FALSE>>, <<FALSE, FALSE, FALSE>>}}

DirListings ==
    {ls \in UNION {[1..n -> DirEntries] : n \in 0..MaxDirs} :
        \A i, j \in 1..Len(ls) : ls[i].name = ls[j].name => i = j}

Sections ==
    [Name : {Absent, Bad, Str(<<"a">>), Str(<<"b">>)},
     Path : {Absent, Bad, Str(<<"p">>)}]

Inis ==
    {[readable |-> FALSE, sections |-> <<>>]}
        \cup {[readable |-> TRUE, sections |-> ss] :
                ss \in UNION {[1..n -> Sections] : n \in 0..MaxSections}}

InitProfile ==
    /\ listing \in DirListings
    /\ ini \in Inis
    /\ args \in [path : {<<"">>}, separator : {" / "},
                 profile : [given : {TRUE}, name : Queries]]
    /\ table = <<>>
    /\ pc = "main"
    /\ RunStart
    /\ cache = EmptyCache
    /\ OthersIdle

SpecProfile == InitProfile /\ [][Resolve]_vars

\* The discovered profile directories, in enumeration order.
Discovered ==
    SelectSeq(listing, LAMBDA e :
        e.is_dir /\ e.name[1] # "." /\ (e.places \/ e.prefs))

ExactMatches == {n \in 1..Len(Discovered) : Discovered[n].name = args.profile.name}

PartialMatches ==
    {n \in 1..Len(Discovered) :
        Contains(Lower(Discovered[n].name), Lower(args.profile.name))}

\* The sections of profiles.ini that name the profile and give its path.
SectionMatches ==
    {n \in 1..Len(ini.sections) :
        /\ ini.readable
        /\ ini.sections[n].Name = Str(args.profile.name)
        /\ ini.sections[n].Path.kind = "str"}

Least(S) == CHOOSE n \in S : \A m \in S : n <= m

\* C8: path_from_name returns the directory named exactly like the query if
\* there is one; else the first enumerated directory whose lower-cased name
\* contains the lower-cased query; else the root joined with the Path of a
\* profiles.ini section whose Name is the query; and it raises iff none of
\* the three finds a match.
C8_ThreeStrategiesInOrder ==
    pc # "main" =>
        IF ExactMatches # {}
        THEN pc = "prompt"
             /\ profile_path = firefox_dir(Discovered[Least(ExactMatches)].name)
        ELSE IF PartialMatches # {}
        THEN pc = "prompt"
             /\ profile_path = firefox_dir(Discovered[Least(PartialMatches)].name)
        ELSE IF SectionMatches # {}
        THEN pc = "prompt"
             /\ \E n \in SectionMatches :
                    profile_path = firefox_dir(ini.sections[n].Path.s)
        ELSE pc = "except" /\ exc = Exception("Exception", NotFoundMsg(args.profile.name))

(***************************************************************************)
(* The parent walk alone: line 126 on every small parent index.            *)
(***************************************************************************)
MaxId == 4

WalkIds == 1..MaxId

\* A parent is the root's own parent 0, a row, or an id no row has.
WalkParents == 0..(MaxId + 1)

\* The title of row i: rows differ in their titles, so that a path tells
\* which rows it went through.
TitleOf(i) == <<"title", i>>

\* Every index over some of the ids, each row with any parent.
ParentIndexes ==
    UNION {{[i \in S |-> <<TitleOf(i), q[i]>>] : q \in [S -> WalkParents]} :
              S \in SUBSET WalkIds}

ListingIdle ==
    /\ listing = <<>>
    /\ ini = NoIni
    /\ args = [path |-> <<"">>, separator |-> " / ",
               profile |-> [given |-> FALSE, name |-> <<>>]]
    /\ table = <<>>
    /\ pc = "off"
    /\ RunStart

InitWalk ==
    /\ by_id \in ParentIndexes
    /\ \E index \in DOMAIN by_id :
           walk = [status |-> "start", index |-> index, i |-> index, path_arr |-> <<>>]
    /\ ListingIdle
    /\ cache = EmptyCache
    /\ proc = <<>>
    /\ rets = <<>>

\* Line 126: path_arr = reversed(list(parent_generator(index)))
WalkRun ==
    /\ walk.status = "start"
    /\ LET w == parent_generator(by_id, walk.index)
       IN  walk' = [status |-> w.status, index |-> walk.index, i |-> w.i,
                    path_arr |-> Reversed(w.titles)]
    /\ UNCHANGED <<env, pc, stdout, exit_code, exc, raised, profile_path, conn_res,
                   k, tmp, conn, db, favicon_available, icon, display_name, path,
                   accepted, emitted, cache, proc, rets, by_id>>

SpecWalk == InitWalk /\ [][WalkRun]_vars

RECURSIVE Climb(_, _)
\* The rows from row i up to the row under the root, i first, when the
\* parent pointers lead from i to the root through rows that exist; <<0>>
\* when they do not within n rows.
Climb(i, n) ==
    IF i = RootId THEN <<>>
    ELSE IF n = 0 \/ i \notin DOMAIN by_id THEN <<0>>
    ELSE LET up == Climb(by_id[i][2], n - 1)
         IN  IF up = <<0>> THEN <<0>> ELSE <<i>> \o up

Rooted(i) == i # RootId /\ Climb(i, MaxId) # <<0>>

RECURSIVE OnCycle(_, _, _)
\* Whether following the parent pointers from row j comes back to row i.
OnCycle(i, j, n) ==
    /\ n > 0
    /\ j \in DOMAIN by_id
    /\ (by_id[j][2] = i \/ OnCycle(i, by_id[j][2], n - 1))

NoCycle == \A i \in DOMAIN by_id : ~OnCycle(i, i, MaxId)

MaxProcs == 2

MaxCalls == 3

Idle == [pc |-> "idle", icon |-> <<>>, loc |-> "", present |-> FALSE,
         wrote |-> FALSE, calls |-> 0]

RECURSIVE Cached(_)
\* cache_dir with the icons of S cached in it.
Cached(S) ==
    IF S = {} THEN [EmptyCache EXCEPT !.dir = TRUE]
    ELSE LET b == CHOOSE b \in S : TRUE
         IN  WriteData(Cached(S \ {b}), Loc(b), b)

\* The caches the tool leaves behind: no directory, or the directory with
\* the files of some icons cached earlier.
Caches == {EmptyCache} \cup {Cached(S) : S \in SUBSET Icons}

InitCache ==
    /\ proc = [p \in 1..MaxProcs |-> Idle]
    /\ rets = <<>>
    /\ cache \in Caches
    /\ ListingIdle
    /\ by_id = <<>>
    /\ walk = [status |-> "off", index |-> 0, i |-> 0, path_arr |-> <<>>]

\* One process, calling cache_icon again and again.
InitCacheSeq ==
    /\ proc = [p \in {1} |-> Idle]
    /\ rets = <<>>
    /\ cache \in Caches
    /\ ListingIdle
    /\ by_id = <<>>
    /\ walk = [status |-> "off", index |-> 0, i |-> 0, path_arr |-> <<>>]

rest == <<env, pc, stdout, exit_code, exc, raised, profile_path, conn_res, k, tmp,
          conn, db, favicon_available, icon, display_name, path, accepted,
          emitted, by_id, walk>>

\* Line 87: the call, and loc
Call(p) ==
    /\ p \in DOMAIN proc
    /\ proc[p].pc = "idle"
    /\ proc[p].calls < MaxCalls
    /\ \E b \in Icons :
           proc' = [proc EXCEPT ![p] = [@ EXCEPT !.pc = "l88", !.icon = b,
                                                 !.loc = Loc(b),
                                                 !.present = LocExists(cache, Loc(b)),
                                                 !.wrote = FALSE]]
    /\ UNCHANGED <<rest, cache, rets>>

\* Line 88: if not cache_dir.exists()
CheckDir(p) ==
    /\ p \in DOMAIN proc
    /\ proc[p].pc = "l88"
    /\ proc' = [proc EXCEPT ![p].pc = IF NeedsMkdir(cache) THEN "l89" ELSE "l90"]
    /\ UNCHANGED <<rest, cache, rets>>

\* Line 89: cache_dir.mkdir()
MakeDir(p) ==
    /\ p \in DOMAIN proc
    /\ proc[p].pc = "l89"
    /\ LET r == Mkdir(cache)
       IN  IF r.ok
           THEN /\ cache' = r.val
                /\ proc' = [proc EXCEPT ![p].pc = "l90"]
           ELSE /\ proc' = [proc EXCEPT ![p].pc = "raised"]
                /\ UNCHANGED cache
    /\ UNCHANGED <<rest, rets>>

\* Line 90: if not loc.exists()
CheckLoc(p) ==
    /\ p \in DOMAIN proc
    /\ proc[p].pc = "l90"
    /\ proc' = [proc EXCEPT ![p].pc = IF NeedsWrite(cache, proc[p].loc) THEN "l91"
                                      ELSE "l92"]
    /\ UNCHANGED <<rest, cache, rets>>

\* Line 91: loc.write_bytes(icon) opens loc,
OpenLoc(p) ==
    /\ p \in DOMAIN proc
    /\ proc[p].pc = "l91"
    /\ cache' = OpenTruncate(cache, proc[p].loc)
    /\ proc' = [proc EXCEPT ![p].pc = "l91w", ![p].wrote = TRUE]
    /\ UNCHANGED <<rest, rets>>

\* and writes the bytes.
WriteLoc(p) ==
    /\ p \in DOMAIN proc
    /\ proc[p].pc = "l91w"
    /\ cache' = WriteData(cache, proc[p].loc, proc[p].icon)
    /\ proc' = [proc EXCEPT ![p].pc = "l92"]
    /\ UNCHANGED <<rest, rets>>

\* Line 92: return loc
ReturnLoc(p) ==
    /\ p \in DOMAIN proc
    /\ proc[p].pc = "l92"
    /\ rets' = Append(rets, [p |-> p, icon |-> proc[p].icon, loc |-> proc[p].loc,
                              present |-> proc[p].present, wrote |-> proc[p].wrote,
                              content |-> cache.files[proc[p].loc]])
    /\ proc' = [proc EXCEPT ![p].pc = "idle", ![p].calls = @ + 1]
    /\ UNCHANGED <<rest, cache>>

NextCache ==
    \/ \E p \in 1..MaxProcs : Call(p)
    \/ \E p \in 1..MaxProcs : CheckDir(p)
    \/ \E p \in 1..MaxProcs : MakeDir(p)
    \/ \E p \in 1..MaxProcs : CheckLoc(p)
    \/ \E p \in 1..MaxProcs : OpenLoc(p)
    \/ \E p \in 1..MaxProcs : WriteLoc(p)
    \/ \E p \in 1..MaxProcs : ReturnLoc(p)

SpecCache == InitCache /\ [][NextCache]_vars

SpecCacheSeq == InitCacheSeq /\ [][NextCache]_vars

\* C4: processes of the tool calling cache_icon at the same time all
\* complete without raising and return the content-hash path.
C4_ConcurrentCallsComplete ==
    /\ \A p \in DOMAIN proc : proc[p].pc # "raised"
    /\ \A n \in 1..Len(rets) : rets[n].loc = Loc(rets[n].icon)

\* C5: cache_icon is idempotent and content-addressed: a call does not
\* raise, returns a path that depends on the bytes alone, leaves the bytes
\* in the file at that path, and writes the file only when it was not there:
\* a second call with the same bytes does not write it again.
C5_IdempotentContentAddressed ==
    /\ \A p \in DOMAIN proc : proc[p].pc # "raised"
    /\ \A n \in 1..Len(rets) :
          /\ rets[n].content = rets[n].icon
          /\ rets[n].loc \in DOMAIN cache.files
          /\ cache.files[rets[n].loc] = rets[n].icon
          /\ rets[n].wrote <=> ~rets[n].present
          /\ \A m \in 1..Len(rets) :
                /\ rets[m].icon = rets[n].icon <=> rets[m].loc = rets[n].loc
                /\ (m < n /\ rets[m].icon = rets[n].icon) => ~rets[n].wrote

C5_Witness ==
    /\ Len(rets) = 2
    /\ rets[1].icon = rets[2].icon
    /\ rets[1].wrote
    /\ rets[1].loc = rets[2].loc

====
